---- MODULE Spec2Model ----
(***************************************************************************)
(* SupervisedMAE (src/CREAM/models_mae_cross.py): the forward pass of the  *)
(* exemplar-conditioned density regressor, as a state machine over the     *)
(* statements of forward / forward_encoder / forward_decoder.              *)
(*                                                                         *)
(* Tensors are records [shape, data]: data is the row-major (contiguous)   *)
(* listing of the elements, so reshape keeps data and changes shape, and   *)
(* permute / transpose re-list the elements.  Indices are 0-based as in    *)
(* the source; data is a TLA+ sequence, so element i sits at data[i+1].    *)
(*                                                                         *)
(* The learned layers (convolutions, attention blocks, linear layers) are  *)
(* not interpreted.  An element stands for the channel vector of one token *)
(* (the channel axis has extent 1, in vectors of decoder_embed_dim): it    *)
(* carries src, where it came from (batch item, shot, grid cell), dep, the *)
(* crops (batch item, shot) its value has been computed from, and val, its *)
(* value in a representative channel.  No statement of forward branches on *)
(* the content of a tensor, so the result of a call is the same function   *)
(* of the crops' contents whatever they are: it reads the crops in dep.    *)
(***************************************************************************)
EXTENDS Integers, Sequences, FiniteSets, TLC

\* ---------------------------------------------------------------- bounds
MaxBatch == 2
MaxShots == 2
MaxHeads == 2
MaxLayers == 2
\* |logit| above which the float sigmoid has rounded to exactly 0 or 1
SatLogit == 2

\* ------------------------------------------------------ program constants
DefaultImgSize == 384
DefaultPatchSize == 16
CropSide == 64
GridSide == 8
HeadDoublings == 4

\* --------------------------------------------------------------- utilities
Abs(a) == IF a < 0 THEN -a ELSE a

RECURSIVE Pow2(_)
Pow2(n) == IF n = 0 THEN 1 ELSE 2 * Pow2(n - 1)

RECURSIVE GCD(_, _)
GCD(a, b) == IF b = 0 THEN a ELSE GCD(b, a % b)

\* int(math.sqrt(n)) / int(n ** .5)
RECURSIVE IsqrtFrom(_, _)
IsqrtFrom(n, r) == IF (r + 1) * (r + 1) > n THEN r ELSE IsqrtFrom(n, r + 1)

Isqrt(n) == IsqrtFrom(n, 0)

\* ------------------------------------------------- exact rational numbers
\* <<n, d>> with d > 0 stands for n / d; <<0, 0>> is NaN, <<1, 0>> and
\* <<-1, 0>> are +inf and -inf (what 1/0 and x*inf give in floating point).
\* Rat gives lowest terms; a sum over a common denominator keeps it.
NaN == <<0, 0>>

Sign(n) == IF n > 0 THEN 1 ELSE IF n < 0 THEN -1 ELSE 0

Rat(n, d) ==
    IF d = 0 THEN <<Sign(n), 0>>
    ELSE LET g == GCD(Abs(n), Abs(d))
         IN  <<Sign(d) * (n \div g), Abs(d) \div g>>

RInt(n) == <<n, 1>>

RAdd(p, q) ==
    IF p[2] = 0 /\ q[2] = 0 THEN (IF p = q THEN p ELSE NaN)
    ELSE IF p[2] = 0 THEN p
    ELSE IF q[2] = 0 THEN q
    ELSE IF p[2] = q[2] THEN <<p[1] + q[1], p[2]>>
    ELSE Rat(p[1] * q[2] + q[1] * p[2], p[2] * q[2])

\* the same number
REq(p, q) == Rat(p[1], p[2]) = Rat(q[1], q[2])

RMul(p, q) ==
    IF p = NaN \/ q = NaN THEN NaN
    ELSE Rat(p[1] * q[1], p[2] * q[2])

RRecip(p) ==
    IF p = NaN THEN NaN
    ELSE IF p[1] = 0 THEN <<1, 0>>
    ELSE IF p[2] = 0 THEN <<0, 1>>
    ELSE Rat(p[2], p[1])

RLeq(p, q) ==
    LET a == Rat(p[1], p[2])
        b == Rat(q[1], q[2])
    IN  a[2] > 0 /\ b[2] > 0 /\ a[1] * b[2] <= b[1] * a[2]

\* the sum of s[lo..hi], halving the range
RECURSIVE RSumRange(_, _, _)
RSumRange(s, lo, hi) ==
    IF lo > hi THEN RInt(0)
    ELSE IF lo = hi THEN s[lo]
    ELSE RAdd(RSumRange(s, lo, (lo + hi) \div 2),
              RSumRange(s, ((lo + hi) \div 2) + 1, hi))

RSum(s) == RSumRange(s, 1, Len(s))

\* ------------------------------------------------------------ tensor shapes
RECURSIVE Numel(_)
Numel(shape) == IF shape = <<>> THEN 1 ELSE Head(shape) * Numel(Tail(shape))

Stride(shape, j) == Numel(SubSeq(shape, j + 1, Len(shape)))

\* the index (one entry per dimension) of the element at flat position i
Unravel(i, shape) ==
    [j \in 1..Len(shape) |-> (i \div Stride(shape, j)) % shape[j]]

RECURSIVE RavelFrom(_, _, _)
RavelFrom(idx, shape, j) ==
    IF j > Len(shape) THEN 0
    ELSE idx[j] * Stride(shape, j) + RavelFrom(idx, shape, j + 1)

Ravel(idx, shape) == RavelFrom(idx, shape, 1)

\* the sequence f[1], ..., f[n], each element computed once
Listed(f, n) == SubSeq(f, 1, n)

\* a tensor of shape sh whose elements are listed by f
Tensor(sh, f) == [shape |-> sh, data |-> Listed(f, Numel(sh))]

\* Tensor.permute(*dims): dimension j of the result is dimension dims[j]
PermuteShape(shape, dims) == [j \in 1..Len(dims) |-> shape[dims[j] + 1]]

\* the index in the source of the element at index idx of the permuted view
PermuteSource(idx, dims) ==
    [d \in 1..Len(dims) |-> idx[CHOOSE j \in 1..Len(dims) : dims[j] + 1 = d]]

Strides(shape) == [j \in 1..Len(shape) |-> Stride(shape, j)]

\* Ravel(PermuteSource(Unravel(i, ns), dims), shape), with the strides nst of
\* ns and, per dimension of the view, the stride sst of its source dimension
RECURSIVE SourceFlat(_, _, _, _, _)
SourceFlat(i, ns, nst, sst, j) ==
    IF j = 0 THEN 0
    ELSE ((i \div nst[j]) % ns[j]) * sst[j] + SourceFlat(i, ns, nst, sst, j - 1)

Permute(t, dims) ==
    LET ns  == PermuteShape(t.shape, dims)
        nst == Strides(ns)
        sst == PermuteShape(Strides(t.shape), dims)
    IN  Tensor(ns, [i \in 1..Numel(ns) |->
                      t.data[SourceFlat(i - 1, ns, nst, sst, Len(ns)) + 1]])

SwapDims(r, a, b) ==
    [j \in 1..r |-> IF j = a + 1 THEN b ELSE IF j = b + 1 THEN a ELSE j - 1]

\* Tensor.transpose(a, b)
Transpose(t, a, b) == Permute(t, SwapDims(Len(t.shape), a, b))

\* a reshape that checks nothing
CanReshapeAny(shape, ns) == TRUE

\* Tensor.reshape(*shape) succeeds iff the element counts agree
CanReshape(shape, ns) == Numel(shape) = Numel(ns)

Reshape(t, ns) == [shape |-> ns, data |-> t.data]

\* Tensor.flatten(a, b) on a shape
FlattenShape(shape, a, b) ==
    SubSeq(shape, 1, a) \o <<Numel(SubSeq(shape, a + 1, b + 1))>>
        \o SubSeq(shape, b + 2, Len(shape))

\* Tensor.mean(dim, keepdim=False) on a shape
DropDim(shape, d) == SubSeq(shape, 1, d) \o SubSeq(shape, d + 2, Len(shape))

\* torch.cat(ts, dim=0) of tensors of equal trailing shape
RECURSIVE CatData(_)
CatData(ts) == IF ts = <<>> THEN <<>> ELSE Head(ts).data \o CatData(Tail(ts))

Cat0(ts) ==
    [shape |-> <<Len(ts) * Head(ts).shape[1]>> \o Tail(Head(ts).shape),
     data  |-> CatData(ts)]

Unsqueeze0(t) == [shape |-> <<1>> \o t.shape, data |-> t.data]

At(t, idx) == t.data[Ravel(idx, t.shape) + 1]

\* ------------------------------------------------------------ configuration
EmbedDim == 1024
DecoderEmbedDim == 512

\* SupervisedMAE(img_size, patch_size, ..., decoder_num_heads, cross_blocks):
\* the default geometry with every head and block count, and three other
\* geometries; seed is the state of the random generator at construction.
Config(img, patch, heads, blocks, seed) ==
    [img_size |-> img, patch_size |-> patch, decoder_num_heads |-> heads,
     cross_blocks |-> blocks, seed |-> seed]

Configs ==
    {Config(DefaultImgSize, DefaultPatchSize, h, 1, 0) : h \in 1..MaxHeads}
    \cup {Config(DefaultImgSize, DefaultPatchSize, 1, l, 0) : l \in 1..MaxLayers}
    \cup {Config(DefaultImgSize, DefaultPatchSize, 1, 1, 1)}
    \cup {Config(g[1], g[2], 1, 1, 0) : g \in {<<224, 16>>, <<384, 32>>, <<128, 8>>}}

\* PatchEmbed.num_patches: (img_size // patch_size) ** 2
NumPatches(c) ==
    (c.img_size \div c.patch_size) * (c.img_size \div c.patch_size)

\* util.pos_embed.get_2d_sincos_pos_embed(embed_dim, grid_size): a table that
\* is a function of its two arguments alone
get_2d_sincos_pos_embed(dim, grid) ==
    [shape |-> <<grid * grid, dim>>, table |-> <<"sincos", dim, grid>>]

\* nn.Parameter(torch.zeros(...), requires_grad=...) as __init__ creates them
NewParams(c) ==
    [pos_embed |-> [shape |-> <<1, NumPatches(c), EmbedDim>>,
                    value |-> <<"zeros", 0, 0>>, requires_grad |-> FALSE],
     decoder_pos_embed |-> [shape |-> <<1, NumPatches(c), DecoderEmbedDim>>,
                            value |-> <<"zeros", 0, 0>>, requires_grad |-> FALSE],
     shot_token |-> [shape |-> <<DecoderEmbedDim>>,
                     value |-> <<"zeros", 0, 0>>, requires_grad |-> TRUE]]

\* pos_embed.data.copy_(torch.from_numpy(table).float().unsqueeze(0))
CopyTable(param, dim, grid) ==
    [param EXCEPT !.value = get_2d_sincos_pos_embed(dim, grid).table]

\* initialize_weights without lines 134-135
initialize_weightsEncoderOnly(p, c) ==
    [p EXCEPT
       !.pos_embed = CopyTable(@, @.shape[3], Isqrt(NumPatches(c))),
       !.shot_token = [@ EXCEPT !.value = <<"normal_", c.seed, 0>>]]

initialize_weights(p, c) ==
    [p EXCEPT
       !.pos_embed = CopyTable(@, @.shape[3], Isqrt(NumPatches(c))),
       !.decoder_pos_embed = CopyTable(@, @.shape[3], Isqrt(NumPatches(c))),
       !.shot_token = [@ EXCEPT !.value = <<"normal_", c.seed, 0>>]]


\* ------------------------------------------------------------------ elements
\* src: the batch item, shot and grid cell the element belongs to
Elem(b, k, cell, dep) == [src |-> <<b, k, cell>>, dep |-> dep, val |-> NaN]

\* ------------------------------------------------------ exemplar CNN encoder
\* nn.Sequential(nn.Conv2d(cin, cout, kernel_size=3, stride=1, padding=1),
\* nn.InstanceNorm2d(cout), nn.ReLU(inplace=True), pool), as __init__ builds
\* them
decoder_proj1 == [cin |-> 3, cout |-> 64, pool |-> "MaxPool2d(2)"]

decoder_proj2 == [cin |-> 64, cout |-> 128, pool |-> "MaxPool2d(2)"]

decoder_proj3 == [cin |-> 128, cout |-> 256, pool |-> "MaxPool2d(2)"]

decoder_proj4 == [cin |-> 256, cout |-> DecoderEmbedDim, pool |-> "AdaptiveAvgPool2d((1, 1))"]

decoder_proj_final == [cin |-> 256, cout |-> DecoderEmbedDim, pool |-> "none"]

Module(name) ==
    CASE name = "decoder_proj1" -> decoder_proj1
      [] name = "decoder_proj2" -> decoder_proj2
      [] name = "decoder_proj3" -> decoder_proj3
      [] name = "decoder_proj4" -> decoder_proj4
      [] name = "decoder_proj_final" -> decoder_proj_final

\* the convolution (padding 1), the norm and the ReLU keep the side;
\* MaxPool2d(2) gives floor(side / 2), AdaptiveAvgPool2d((1, 1)) gives 1
ConvStage(m, fm) ==
    [chan |-> IF fm.chan = m.cin THEN m.cout ELSE -1,
     side |-> IF m.pool = "MaxPool2d(2)" THEN fm.side \div 2
              ELSE IF m.pool = "none" THEN fm.side
              ELSE 1]

\* the stages with the pooled branch decoder_proj4 as the last
StagesAppliedPooled == <<"decoder_proj1", "decoder_proj2", "decoder_proj3", "decoder_proj4">>

\* lines 187-190: the modules a shot goes through, in order
StagesApplied == <<"decoder_proj1", "decoder_proj2", "decoder_proj3", "decoder_proj_final">>

RECURSIVE ApplyStages(_, _)
ApplyStages(names, fm) ==
    IF names = <<>> THEN fm
    ELSE ApplyStages(Tail(names), ConvStage(Module(Head(names)), fm))

EncodeShape(fm) == ApplyStages(StagesApplied, fm)

\* yi of shape [N, C, g, g] for shot k: the element of batch item n is
\* computed from crop (n, k) alone (instance normalisation uses no batch
\* statistics)
EncodeShot(n_, k, side) ==
    LET fm == EncodeShape([chan |-> 3, side |-> side])
        sh == <<n_, fm.chan \div DecoderEmbedDim, fm.side, fm.side>>
    IN  Tensor(sh, [i \in 1..Numel(sh) |->
                      LET ix == Unravel(i - 1, sh)
                      IN  Elem(ix[1], k, ix[3] * fm.side + ix[4], {<<ix[1], k>>})])

\* --------------------------------------------- exemplar cross-attention
\* CrossAttentionBlock(x, y) with return_attn: the scores have shape
\* (batch, heads, query tokens, key tokens)
AttnShape(q, kv, heads) == <<q[1], heads, q[2], kv[2]>>

\* CrossAttentionBlock(y1, y1) on the tokens [N, T, C]: a token keeps its
\* place and is computed from every token of its batch item
BlockTokens(t) ==
    LET per    == t.shape[2] * t.shape[3]
        rowdep == Listed([n \in 1..t.shape[1] |->
                            UNION {t.data[j].dep : j \in ((n - 1) * per + 1)..(n * per)}],
                         t.shape[1])
    IN  Tensor(t.shape, [i \in 1..Len(t.data) |->
                      [t.data[i] EXCEPT !.dep = rowdep[((i - 1) \div per) + 1]]])

\* line 201: attn.permute(0, 2, 1, 3).reshape(N, shot_num * 8 * 8, heads,
\* shot_num, 8 * 8).mean(dim=3).flatten(2, 3).unsqueeze(0)
SummaryPermute == <<0, 2, 1, 3>>

\* the target with the cells before the shots
SummaryTargetCellsFirst(n_, s, heads) ==
    <<n_, s * GridSide * GridSide, heads, GridSide * GridSide, s>>

SummaryTarget(n_, s, heads) == <<n_, s * GridSide * GridSide, heads, s, GridSide * GridSide>>

SummaryMeanDim == 3

SummaryShape(n_, s, heads) ==
    <<1>> \o FlattenShape(DropDim(SummaryTarget(n_, s, heads), SummaryMeanDim), 2, 3)

\* torch.cat(attns, dim=0)
StackShape(shapes) == <<Len(shapes) * Head(shapes)[1]>> \o Tail(Head(shapes))

\* the elements of attn (as indices (batch, head, query, key)) whose mean is
\* element idx = (n, q, j) of the summary [N, shot_num * 64, heads * 64]
SummarySources(attn, n_, s, heads, idx) ==
    LET tgt  == SummaryTarget(n_, s, heads)
        red  == DropDim(tgt, SummaryMeanDim)
        ps   == PermuteShape(attn, SummaryPermute)
        i4   == Unravel(Ravel(idx, FlattenShape(red, 2, 3)), red)
        At5(m) == [d \in 1..5 |-> IF d <= SummaryMeanDim THEN i4[d]
                                  ELSE IF d = SummaryMeanDim + 1 THEN m
                                  ELSE i4[d - 1]]
    IN  {PermuteSource(Unravel(Ravel(At5(m), tgt), ps), SummaryPermute) :
            m \in 0..(tgt[SummaryMeanDim + 1] - 1)}

\* ------------------------------------------------------------ gate and pool
\* exemplar_norm(y1): the normalised feature of a token, for the draw d of
\* the learned weights
Feature(d, e) == ((d[2] * (e.src[3] + 2 * e.src[2] + 3 * e.src[1])) % 5) - 2

\* the four nn.Linear of exemplar_weights on layer l's summary row of token e
GateLogit(d, l, e) ==
    ((d[1] * (e.src[3] + 2 * e.src[2] + 3 * e.src[1] + l) + d[3])
        % (2 * SatLogit + 3)) - (SatLogit + 1)

\* a common denominator of 1 / (1 + 2^z), z in 0..n
RECURSIVE SigDen(_)
SigDen(n) ==
    IF n = 0 THEN 2
    ELSE (SigDen(n - 1) * (1 + Pow2(n))) \div GCD(SigDen(n - 1), 1 + Pow2(n))

\* exemplar_weights without its nn.Sigmoid()
SigmoidLeftOut(z) == <<z * SigDen(SatLogit), SigDen(SatLogit)>>

\* nn.Sigmoid(), on logits in units of ln 2: 2^z / (1 + 2^z), over the
\* denominator SigDen(SatLogit); saturates as a float does
Sigmoid(z) ==
    LET den == SigDen(SatLogit)
    IN  IF z < -SatLogit THEN <<0, den>>
        ELSE IF z > SatLogit THEN <<den, den>>
        ELSE IF z >= 0 THEN <<(den \div (1 + Pow2(z))) * Pow2(z), den>>
        ELSE <<den \div (1 + Pow2(-z)), den>>

\* .mean(dim=0) of the values s
RMean(s) == LET t == RSum(s) IN <<t[1], t[2] * Len(s)>>

\* exemplar_weights(torch.cat(attns, dim=0)).mean(dim=0) at one token
GateWeight(d, layers, e) ==
    RMean(Listed([l \in 1..layers |-> Sigmoid(GateLogit(d, l, e))], layers))

\* the learned weights: <<0, 0, 0>> closes the gate, <<0, _, 1>> gives every
\* token the same weight, <<_, 0, _>> every token the same feature
Draws == {<<0, 0, 0>>, <<0, 0, 1>>, <<0, 1, 1>>, <<1, 0, 0>>, <<1, 1, 1>>}

\* line 203: the weights [N, T, 1], one per token of y1 [N, T, C]
GateTensor(d, layers, t, wshape) ==
    Tensor(wshape, [i \in 1..Numel(wshape) |->
                      GateWeight(d, layers, t.data[(i - 1) * t.shape[3] + 1])])

\* lines 202 and 204: y1 = exemplar_norm(y1); y1 = attns * y1
Weighted(d, t, a) ==
    Tensor(t.shape, [i \in 1..Len(t.data) |->
                      [t.data[i] EXCEPT !.val =
                          LET wt == a.data[((i - 1) \div t.shape[3]) + 1]
                          IN  <<wt[1] * Feature(d, t.data[i]), wt[2]>>]])

\* line 205: self.pool(y1.reshape(N * shot_num, 8, 8, 512).permute(0, 3, 1, 2))
PoolTarget(n_, s) == <<n_ * s, GridSide, GridSide, 1>>

PoolPermute == <<0, 3, 1, 2>>

\* line 206: attns.reshape(N * shot_num, 8 * 8)
WeightTarget(n_, s) == <<n_ * s, GridSide * GridSide>>

\* the sum over every row instead of .sum(dim=1, keepdim=True)
RowWeightSumAll(a, n_, s, row) == RSum(a.data)

\* .sum(dim=1, keepdim=True) of the reshaped weights, at row
RowWeightSum(a, n_, s, row) ==
    LET ws == WeightTarget(n_, s)
    IN  RSum(SubSeq(a.data, row * ws[2] + 1, (row + 1) * ws[2]))

\* line 207: y1 * 8 * 8
CellCount == GridSide * GridSide

\* the (batch item, shot) of the cells pooled, <<-1, -1>> if they differ
Source(cells) ==
    LET bk == {<<cells[c].src[1], cells[c].src[2]>> : c \in DOMAIN cells}
    IN  IF Cardinality(bk) = 1 THEN CHOOSE p \in bk : TRUE ELSE <<-1, -1>>

\* line 206: 1 / attns.reshape(N * shot_num, 8 * 8).sum(dim=1, keepdim=True)
RecipSums(a, n_, s) ==
    Tensor(<<WeightTarget(n_, s)[1], 1>>,
           [i \in 1..WeightTarget(n_, s)[1] |-> RRecip(RowWeightSum(a, n_, s, i - 1))])

\* nn.AdaptiveAvgPool2d((1, 1)) on [R, C, h, w], then .squeeze(-1).squeeze(-1)
AvgPool(p) ==
    LET sh == <<p.shape[1], p.shape[2]>>
        hw == p.shape[3] * p.shape[4]
    IN  Tensor(sh, [i \in 1..Numel(sh) |->
                      LET cells == SubSeq(p.data, (i - 1) * hw + 1, i * hw)
                          src   == Source(cells)
                      IN  [src |-> <<src[1], src[2], -1>>,
                           dep |-> UNION {cells[c].dep : c \in 1..hw},
                           val |-> RMean(Listed([c \in 1..hw |-> cells[c].val], hw))]])

\* line 207: torch.mul(y1 * 8 * 8, attns), attns of shape [R, 1]
Rescale(t, rs) ==
    Tensor(t.shape, [i \in 1..Len(t.data) |->
                      [t.data[i] EXCEPT !.val = RMul(RMul(@, RInt(CellCount)),
                                                    rs.data[((i - 1) \div t.shape[2]) + 1])]])

\* lines 205-207 on the weighted tokens t and the reciprocals rs
Pooled(t, rs, n_, s) ==
    Rescale(AvgPool(Permute(Reshape(t, PoolTarget(n_, s)), PoolPermute)), rs)

\* ----------------------------------------------------- decoder keys / values
\* self.shot_token.repeat(y_.shape[1], 1).unsqueeze(0)
ShotTokens(tok, batch) ==
    Tensor(<<1, batch, 1>>,
           [i \in 1..batch |-> [src |-> <<-1, -1, -1>>, dep |-> {}, val |-> tok.value]])

\* line 212: y1.reshape(shot_num, N, C)
KVTarget(s, n_, c_) == <<s, n_, c_>>

\* lines 211-215 without the fallback branch
BuildKVNoFallback(t, s, n_, c_, tok, batch) ==
    Transpose(Reshape(t, KVTarget(s, n_, c_)), 0, 1)

\* lines 211-215
BuildKV(t, s, n_, c_, tok, batch) ==
    Transpose(IF s > 0 THEN Reshape(t, KVTarget(s, n_, c_)) ELSE ShotTokens(tok, batch),
              0, 1)

\* the tokens handed to the decoder for batch item n
KVRow(t, n) ==
    LET per == t.shape[2] * t.shape[3]
    IN  SubSeq(t.data, n * per + 1, (n + 1) * per)

\* --------------------------------------------------- density regression head
\* F.interpolate(decode_headK(x), size=x.shape[-1] * 2): the convolutions
\* keep the side and set the channels
\* F.interpolate(..., size=x.shape[-1])
UpsampleSameSize(sh, chan) == <<sh[1], chan, sh[4], sh[4]>>

Upsample(sh, chan) == <<sh[1], chan, sh[4] * 2, sh[4] * 2>>

RECURSIVE HeadShape(_, _)
HeadShape(sh, stage) ==
    IF stage = HeadDoublings THEN sh
    ELSE HeadShape(Upsample(sh, IF stage = HeadDoublings - 1 THEN 1 ELSE 256), stage + 1)

\* x.squeeze(-3)
SqueezeM3(sh) ==
    IF sh[Len(sh) - 2] = 1
    THEN SubSeq(sh, 1, Len(sh) - 3) \o SubSeq(sh, Len(sh) - 1, Len(sh))
    ELSE sh

\* lines 224-236 on the token shape [n, hw, c]
TokenGrid(xs) == Isqrt(xs[2])

PredShape(xs) == SqueezeM3(HeadShape(<<xs[1], xs[3], TokenGrid(xs), TokenGrid(xs)>>, 0))

\* ------------------------------------------------------------------- state
VARIABLES
    cfg,        \* the constructor's arguments
    params,     \* pos_embed, decoder_pos_embed, shot_token
    pc,         \* the statement forward is at
    call,       \* the shapes of forward's arguments and shot_num
    x,          \* the image tokens: shape and, per batch item, what they hold
    cnt,        \* cnt of the shot loop
    locN, locC, \* N and C of forward_decoder
    y1list,     \* the list y1 of the shot loop
    y1,         \* the tensor y1 of lines 197-212
    blk,        \* exemplar blocks applied
    attnShapes, \* the list attns: shapes of the summaries
    attns,      \* the tensor attns of lines 203-207
    draw,       \* the learned weights drawn for the gate and the norm
    y,          \* the decoder's keys / values
    pred,       \* forward's result
    err,        \* the failure that ended the call
    invoked     \* the modules invoked by the call, in order

vars ==
    <<cfg, params, pc, call, x, cnt, locN, locC, y1list, y1, blk,
      attnShapes, attns, draw, y, pred, err, invoked>>

NoTensor == [shape |-> <<0>>, data |-> <<>>]

NoX == [shape |-> <<0>>, item |-> <<>>]

NoCall == [N |-> 0, max_shots |-> 0, shot_num |-> 0, side |-> 0]

\* nothing of a call is left
Cleared ==
    /\ call = NoCall /\ x = NoX
    /\ cnt = 0 /\ locN = 0 /\ locC = 0
    /\ y1list = <<>> /\ y1 = NoTensor /\ blk = 0
    /\ attnShapes = <<>> /\ attns = NoTensor /\ draw = <<0, 0, 0>>
    /\ y = NoTensor /\ pred = NoX
    /\ err = "none" /\ invoked = <<>>

\* the state after SupervisedMAE(...) has returned
Init ==
    /\ cfg \in Configs
    /\ params = initialize_weights(NewParams(cfg), cfg)
    /\ pc = "idle"
    /\ Cleared

Fail(kind) == pc' = "failed" /\ err' = kind

\* forward(imgs, boxes, shot_num) is called: imgs of batch n_, boxes of m
\* crops of side sd per batch item
Enter(batches, sides) ==
    /\ pc = "idle"
    /\ \E n_ \in batches, m \in 0..MaxShots, sd \in sides :
         \E s \in -1..(m + 1) :
            call' = [N |-> n_, max_shots |-> m, shot_num |-> s, side |-> sd]
    /\ pc' = "encoder"
    /\ UNCHANGED <<cfg, params, x, cnt, locN, locC, y1list, y1, blk, attnShapes,
                   attns, draw, y, pred, err, invoked>>

CallForward == Enter(1..MaxBatch, {CropSide})

\* lines 156-168 (under torch.no_grad(), line 243)
ForwardEncoder ==
    /\ pc = "encoder"
    /\ x' = [shape |-> <<call.N, NumPatches(cfg), EmbedDim>>,
             item  |-> [n \in 0..(call.N - 1) |-> [img |-> n, kv |-> <<>>]]]
    /\ invoked' = invoked \o <<<<"patch_embed", -1>>, <<"blocks", -1>>, <<"norm", -1>>>>
    /\ IF <<1, x'.shape[2], x'.shape[3]>> = params.pos_embed.shape
       THEN pc' = "embed" /\ err' = err
       ELSE Fail("pos_embed")
    /\ UNCHANGED <<cfg, params, call, cnt, locN, locC, y1list, y1, blk,
                   attnShapes, attns, draw, y, pred>>

\* lines 172-181
DecoderEmbed ==
    /\ pc = "embed"
    /\ x' = [x EXCEPT !.shape[3] = DecoderEmbedDim]
    /\ invoked' = Append(invoked, <<"decoder_embed", -1>>)
    /\ y1list' = <<>>
    /\ locC' = 0
    /\ locN' = call.N
    /\ cnt' = 0
    /\ IF <<1, x'.shape[2], x'.shape[3]>> = params.decoder_pos_embed.shape
       THEN pc' = "loop" /\ err' = err
       ELSE Fail("decoder_pos_embed")
    /\ UNCHANGED <<cfg, params, call, y1, blk, attnShapes, attns, draw, y, pred>>

\* line 183: y_ has no further shot
LoopExhausted ==
    /\ pc = "loop"
    /\ cnt = call.max_shots
    /\ pc' = "cat"
    /\ UNCHANGED <<cfg, params, call, x, cnt, locN, locC, y1list, y1, blk,
                   attnShapes, attns, draw, y, pred, err, invoked>>

\* the break one iteration late
BreakLate(c, shot_num) == c > shot_num + 1

\* line 186: if cnt > shot_num: break
Break(c, shot_num) == c > shot_num

\* lines 183-186: the next shot is taken and the loop left
LoopBreak ==
    /\ pc = "loop"
    /\ cnt < call.max_shots
    /\ cnt' = cnt + 1
    /\ Break(cnt', call.shot_num)
    /\ pc' = "cat"
    /\ UNCHANGED <<cfg, params, call, x, locN, locC, y1list, y1, blk,
                   attnShapes, attns, draw, y, pred, err, invoked>>

\* lines 183-193: shot number cnt of y_ is encoded
LoopEncode ==
    /\ pc = "loop"
    /\ cnt < call.max_shots
    /\ cnt' = cnt + 1
    /\ ~Break(cnt', call.shot_num)
    /\ y1list' = Append(y1list, Unsqueeze0(EncodeShot(call.N, cnt, call.side)))
    /\ locN' = y1list'[cnt'].shape[2]
    /\ locC' = y1list'[cnt'].shape[3]
    /\ invoked' = invoked \o [i \in 1..Len(StagesApplied) |-> <<StagesApplied[i], cnt>>]
    /\ pc' = "loop"
    /\ UNCHANGED <<cfg, params, call, x, y1, blk, attnShapes, attns, draw,
                   y, pred, err>>

\* line 197: torch.cat(y1, dim=0).permute(1, 0, 3, 4, 2).flatten(1, 3)
CatPermute == <<1, 0, 3, 4, 2>>

Tokens(list) ==
    LET p == Permute(Cat0(list), CatPermute)
    IN  Reshape(p, FlattenShape(p.shape, 1, 3))

\* lines 196-198; torch.cat refuses an empty list
Concat ==
    /\ pc = "cat"
    /\ IF call.shot_num > 0
       THEN IF y1list = <<>>
            THEN Fail("cat of an empty list") /\ y1' = y1
            ELSE /\ y1' = Tokens(y1list)
                 /\ pc' = "blocks" /\ err' = err
       ELSE pc' = "kv" /\ err' = err /\ y1' = y1
    /\ y1list' = <<>>
    /\ blk' = 0
    /\ attnShapes' = <<>>
    /\ UNCHANGED <<cfg, params, call, x, cnt, locN, locC, attns,
                   draw, y, pred, invoked>>

\* lines 199-201, one block
ExemplarBlock ==
    /\ pc = "blocks"
    /\ blk < cfg.cross_blocks
    /\ blk' = blk + 1
    /\ y1' = BlockTokens(y1)
    /\ invoked' = Append(invoked, <<"exemplar_blocks", blk>>)
    /\ LET attn == AttnShape(y1.shape, y1.shape, cfg.decoder_num_heads)
       IN  IF CanReshape(PermuteShape(attn, SummaryPermute),
                         SummaryTarget(locN, call.shot_num, cfg.decoder_num_heads))
           THEN /\ attnShapes' = Append(attnShapes,
                       SummaryShape(locN, call.shot_num, cfg.decoder_num_heads))
                /\ pc' = IF blk' = cfg.cross_blocks THEN "gate" ELSE "blocks"
                /\ err' = err
           ELSE Fail("reshape of attn") /\ attnShapes' = attnShapes
    /\ UNCHANGED <<cfg, params, call, x, cnt, locN, locC, y1list, attns,
                   draw, y, pred>>

\* nn.Linear(8 * 8 * decoder_num_heads, 256) takes rows of that width
GateWidth(heads) == GridSide * GridSide * heads

\* lines 202-204
Gate ==
    /\ pc = "gate"
    /\ \E d \in Draws : draw' = d
    /\ invoked' = invoked \o <<<<"exemplar_norm", -1>>, <<"exemplar_weights", -1>>>>
    /\ LET st == StackShape(attnShapes)
           ws == <<st[2], st[3], 1>>
       IN  IF st[4] # GateWidth(cfg.decoder_num_heads)
           THEN Fail("exemplar_weights input width") /\ UNCHANGED <<attns, y1>>
           ELSE IF ~(ws[1] = y1.shape[1] /\ ws[2] = y1.shape[2])
           THEN Fail("attns * y1") /\ UNCHANGED <<attns, y1>>
           ELSE /\ attns' = GateTensor(draw', cfg.cross_blocks, y1, ws)
                /\ y1' = Weighted(draw', y1, attns')
                /\ pc' = "pool" /\ err' = err
    /\ UNCHANGED <<cfg, params, call, x, cnt, locN, locC, y1list, blk,
                   attnShapes, y, pred>>

\* lines 205-207
Pool ==
    /\ pc = "pool"
    /\ invoked' = Append(invoked, <<"pool", -1>>)
    /\ IF CanReshape(y1.shape, PoolTarget(locN, call.shot_num))
          /\ CanReshape(attns.shape, WeightTarget(locN, call.shot_num))
       THEN /\ attns' = RecipSums(attns, locN, call.shot_num)
            /\ y1' = Pooled(y1, attns', locN, call.shot_num)
            /\ pc' = "kv" /\ err' = err
       ELSE Fail("reshape of y1") /\ UNCHANGED <<y1, attns>>
    /\ UNCHANGED <<cfg, params, call, x, cnt, locN, locC, y1list, blk,
                   attnShapes, draw, y, pred>>

\* lines 209-215
KeysValues ==
    /\ pc = "kv"
    /\ cnt' = 0
    /\ IF call.shot_num > 0 /\ ~CanReshape(y1.shape, KVTarget(call.shot_num, locN, locC))
       THEN Fail("reshape of y1 to (shot_num, N, C)") /\ y' = y
       ELSE /\ y' = BuildKV(y1, call.shot_num, locN, locC, params.shot_token, call.N)
            /\ pc' = "decoder" /\ err' = err
    /\ UNCHANGED <<cfg, params, call, x, locN, locC, y1list, y1, blk,
                   attnShapes, attns, draw, pred, invoked>>

\* lines 219-221: image tokens of batch item n attend to row n of y
Decoder ==
    /\ pc = "decoder"
    /\ invoked' = invoked \o <<<<"decoder_blocks", -1>>, <<"decoder_norm", -1>>>>
    /\ IF y.shape[1] = x.shape[1]
       THEN /\ x' = [x EXCEPT !.item = [n \in DOMAIN @ |-> [@[n] EXCEPT !.kv = KVRow(y, n)]]]
            /\ pc' = "head" /\ err' = err
       ELSE Fail("batch of y") /\ x' = x
    /\ UNCHANGED <<cfg, params, call, cnt, locN, locC, y1list, y1, blk,
                   attnShapes, attns, draw, y, pred>>

\* lines 224-238 and the return of forward
RegressionHead ==
    /\ pc = "head"
    /\ invoked' = invoked \o [i \in 1..HeadDoublings |-> <<"decode_head", i - 1>>]
    /\ IF TokenGrid(x.shape) * TokenGrid(x.shape) = x.shape[2]
       THEN /\ pred' = [shape |-> PredShape(x.shape), item |-> x.item]
            /\ pc' = "done" /\ err' = err
       ELSE Fail("reshape of x") /\ pred' = pred
    /\ UNCHANGED <<cfg, params, call, x, cnt, locN, locC, y1list, y1, blk,
                   attnShapes, attns, draw, y>>

\* the caller has the result, or the exception
Return ==
    /\ pc \in {"done", "failed"}
    /\ pc' = "idle"
    /\ call' = NoCall /\ x' = NoX
    /\ cnt' = 0 /\ locN' = 0 /\ locC' = 0
    /\ y1list' = <<>> /\ y1' = NoTensor /\ blk' = 0
    /\ attnShapes' = <<>> /\ attns' = NoTensor /\ draw' = <<0, 0, 0>>
    /\ y' = NoTensor /\ pred' = NoX
    /\ err' = "none" /\ invoked' = <<>>
    /\ UNCHANGED <<cfg, params>>

Step ==
    \/ ForwardEncoder \/ DecoderEmbed
    \/ LoopExhausted \/ LoopBreak \/ LoopEncode
    \/ Concat \/ ExemplarBlock \/ Gate \/ Pool
    \/ KeysValues \/ Decoder \/ RegressionHead
    \/ Return

Next == CallForward \/ Step

Spec == Init /\ [][Next]_vars

\* crops that were not resized to 64 x 64, for one batch item
CropSides == {56, 63, 64, 71, 72}

CallForwardSized == Enter({1}, CropSides)

NextSized == CallForwardSized \/ Step

SpecCNN == Init /\ [][NextSized]_vars

\* ------------------------------------------------- the result of a call
InCall == pc # "idle"

\* boxes: content 1 at the positions (batch item, shot) of d, 0 elsewhere
BoxesWith(n_, m, d) ==
    [n \in 0..(n_ - 1) |-> [k \in 0..(m - 1) |-> IF <<n, k>> \in d THEN 1 ELSE 0]]

Contents(n_, m) ==
    {BoxesWith(n_, m, d) : d \in SUBSET ((0..(n_ - 1)) \X (0..(m - 1)))}

\* bx with the crops at shot indices >= s cleared
Mask(bx, s) ==
    [n \in DOMAIN bx |-> [k \in DOMAIN bx[n] |-> IF k < s THEN bx[n][k] ELSE 0]]

\* what element e is computed from when the crops hold bx
Reading(e, bx) ==
    [src |-> e.src, val |-> e.val, read |-> {<<c, bx[c[1]][c[2]]>> : c \in e.dep}]

\* pred when the crops hold bx
OutputFor(bx) ==
    [shape |-> pred.shape,
     item  |-> [n \in DOMAIN pred.item |->
                  [img |-> pred.item[n].img,
                   kv  |-> [j \in DOMAIN pred.item[n].kv |->
                              Reading(pred.item[n].kv[j], bx)]]]]

CnnStages ==
    {"decoder_proj1", "decoder_proj2", "decoder_proj3", "decoder_proj4",
     "decoder_proj_final"}

\* the invocations, in order, of the modules named
Called(names) == SelectSeq(invoked, LAMBDA v : v[1] \in names)

\* the shots decoder_proj1 has been applied to, in order
EncodedShots ==
    LET c == Called({"decoder_proj1"}) IN [i \in DOMAIN c |-> c[i][2]]

\* the learned fallback token
FallbackToken == [src |-> <<-1, -1, -1>>, dep |-> {}, val |-> params.shot_token.value]

\* ------------------------------------------------------------------ claims
\* C1: with shot_num = 0 no exemplar CNN stage and no exemplar block is
\* invoked, the decoder gets for each batch item exactly one key/value token,
\* the learned shot token, computed from no crop, and the result is the same
\* whatever the crops hold.
C1_ZeroShotsReadNoCrop ==
    (InCall /\ call.shot_num = 0) =>
        /\ Called(CnnStages \cup {"exemplar_blocks"}) = <<>>
        /\ pc \in {"decoder", "head", "done"} =>
              /\ y.shape = <<call.N, 1, 1>>
              /\ \A n \in 0..(call.N - 1) : KVRow(y, n) = <<FallbackToken>>
        /\ pc \in {"head", "done"} =>
              \A n \in 0..(call.N - 1) : x.item[n].kv = <<FallbackToken>>
        /\ pc = "done" =>
              /\ pred.item = x.item
              /\ \A bx \in Contents(call.N, call.max_shots) :
                    OutputFor(bx) = OutputFor(BoxesWith(call.N, call.max_shots, {}))

C1_Witness ==
    /\ pc = "done" /\ call.shot_num = 0 /\ call.max_shots = MaxShots
    /\ call.N = MaxBatch /\ pred.item[1].kv = <<FallbackToken>>

\* C2: with 1 <= shot_num <= max_shots the CNN encodes the crops at shot
\* indices 0 .. shot_num - 1, in that order, and no other; every token is
\* computed from crops of index < shot_num only, so the result is the same
\* when the crops of index >= shot_num are changed.
C2_OnlyFirstShotsRead ==
    (InCall /\ call.shot_num >= 1 /\ call.shot_num <= call.max_shots) =>
        /\ Len(EncodedShots) <= call.shot_num
        /\ \A i \in DOMAIN EncodedShots : EncodedShots[i] = i - 1
        /\ pc \notin {"encoder", "embed", "loop"} => Len(EncodedShots) = call.shot_num
        /\ \A i \in DOMAIN y1list : \A j \in DOMAIN y1list[i].data :
              y1list[i].data[j].dep = {<<y1list[i].data[j].src[1], i - 1>>}
        /\ \A j \in DOMAIN y1.data : \A c \in y1.data[j].dep : c[2] < call.shot_num
        /\ \A j \in DOMAIN y.data : \A c \in y.data[j].dep : c[2] < call.shot_num
        /\ pc = "done" =>
              /\ \A n \in DOMAIN pred.item : Len(pred.item[n].kv) = call.shot_num
              /\ \A bx \in Contents(call.N, call.max_shots) :
                    OutputFor(bx) = OutputFor(Mask(bx, call.shot_num))

C2_Witness ==
    /\ pc = "done" /\ call.shot_num = 1 /\ call.max_shots = MaxShots /\ call.N = MaxBatch
    /\ pred.item[0].kv[1].dep = {<<0, 0>>}

\* C3: with shot_num >= 1 the decoder gets, for batch item n, shot_num
\* tokens, and the token at position (n, k) is the pooled embedding of
\* (batch item n, shot k), computed from crops of batch item n only.
C3_TokensOfOwnBatchItem ==
    (pc = "decoder" /\ call.shot_num >= 1) =>
        /\ y.shape = <<call.N, call.shot_num, 1>>
        /\ \A n \in 0..(call.N - 1), k \in 0..(call.shot_num - 1) :
              LET e == At(y, <<n, k, 0>>)
              IN  e.src = <<n, k, -1>> /\ \A c \in e.dep : c[1] = n

\* C4: a call with 0 <= shot_num <= max_shots does not fail; its result has
\* shape (N, 16 g, 16 g) for the token grid side g = img_size // patch_size,
\* the head doubling the side exactly 4 times and the channel dimension of
\* size 1 being removed; for the default configuration g = 24, the sides are
\* 24, 48, 96, 192, 384 and the shape is (N, 384, 384); the output side is
\* the image side exactly when 16 g = img_size.
C4_OutputShape ==
    LET g == cfg.img_size \div cfg.patch_size
        default == cfg.img_size = DefaultImgSize /\ cfg.patch_size = DefaultPatchSize
    IN  /\ pc = "failed" => ~(call.shot_num \in 0..call.max_shots)
        /\ pc = "done" =>
              /\ x.shape = <<call.N, g * g, DecoderEmbedDim>>
              /\ TokenGrid(x.shape) = g
              /\ \A j \in 0..HeadDoublings :
                    HeadShape(<<call.N, DecoderEmbedDim, g, g>>, HeadDoublings - j)[4]
                        = g * Pow2(j)
              /\ Len(Called({"decode_head"})) = 4
              /\ pred.shape = <<call.N, 16 * g, 16 * g>>
              /\ (pred.shape[2] = cfg.img_size) <=> (16 * g = cfg.img_size)
              /\ default =>
                    /\ g = 24
                    /\ [j \in 0..4 |-> HeadShape(<<call.N, DecoderEmbedDim, g, g>>, 4 - j)[4]]
                          = [j \in 0..4 |-> <<24, 48, 96, 192, 384>>[j + 1]]
                    /\ pred.shape = <<call.N, 384, 384>>

C4_Witness ==
    /\ pc = "done" /\ cfg.img_size = DefaultImgSize /\ cfg.patch_size = DefaultPatchSize
    /\ call.shot_num = MaxShots /\ pred.shape = <<MaxBatch, 384, 384>>

\* C5: pos_embed and decoder_pos_embed hold, in every state, the table the
\* sin-cos generator gives for their width and the grid side, are not
\* trainable, and are those of any other instance built with the same
\* geometry: construction writes them and no call changes them.
C5_PosEmbedFrozen ==
    LET g == Isqrt(NumPatches(cfg))
    IN  /\ params.pos_embed.value = get_2d_sincos_pos_embed(EmbedDim, g).table
        /\ params.decoder_pos_embed.value = get_2d_sincos_pos_embed(DecoderEmbedDim, g).table
        /\ ~params.pos_embed.requires_grad
        /\ ~params.decoder_pos_embed.requires_grad
        /\ \A c \in Configs :
              (c.img_size = cfg.img_size /\ c.patch_size = cfg.patch_size) =>
                  LET q == initialize_weights(NewParams(c), c)
                  IN  /\ q.pos_embed = params.pos_embed
                      /\ q.decoder_pos_embed = params.decoder_pos_embed

C5_Witness ==
    /\ pc = "done" /\ call.shot_num = MaxShots /\ cfg.seed = 1
    /\ params.decoder_pos_embed.value = <<"sincos", DecoderEmbedDim, 24>>

\* C6: after the gate there is one weight per exemplar token (shot_num * 64
\* per batch item); each lies in [0, 1] and is the mean over the exemplar
\* blocks of the sigmoid of the gate's logit for that block's summary; the
\* token's feature is multiplied by it.
C6_GateWeightInUnitInterval ==
    pc = "pool" =>
        /\ call.shot_num >= 1
        /\ attns.shape = <<call.N, call.shot_num * CellCount, 1>>
        /\ Len(attns.data) = Len(y1.data)
        /\ \A i \in DOMAIN attns.data :
              LET gates == Listed([l \in 1..cfg.cross_blocks |->
                                     Sigmoid(GateLogit(draw, l, y1.data[i]))],
                                  cfg.cross_blocks)
              IN  /\ RLeq(RInt(0), attns.data[i])
                  /\ RLeq(attns.data[i], RInt(1))
                  /\ \A l \in DOMAIN gates :
                        RLeq(RInt(0), gates[l]) /\ RLeq(gates[l], RInt(1))
                  /\ REq(RMul(attns.data[i], RInt(cfg.cross_blocks)), RSum(gates))
                  /\ REq(y1.data[i].val,
                         RMul(attns.data[i], RInt(Feature(draw, y1.data[i]))))

C6_Witness ==
    /\ pc = "pool" /\ cfg.cross_blocks = MaxLayers /\ call.shot_num = MaxShots
    /\ \E i \in DOMAIN attns.data :
          /\ ~RLeq(attns.data[i], RInt(0))
          /\ ~RLeq(RInt(1), attns.data[i])

\* C7: the pooling turns the 64 weighted features w_i v_i of a shot of a
\* batch item into sum(w_i v_i) / sum(w_i) whenever sum(w_i) is not 0, the
\* sums running over the 64 cells of that shot alone; with equal weights
\* this is the plain mean of the v_i, with equal features v it is v.
C7_WeightedMean ==
    [][(pc = "pool" /\ pc' = "kv") =>
         \A r \in 0..(call.N * call.shot_num - 1) :
            LET w     == Listed([c \in 1..CellCount |-> attns.data[r * CellCount + c]],
                                CellCount)
                v     == Listed([c \in 1..CellCount |->
                                   RInt(Feature(draw, y1.data[r * CellCount + c]))],
                                CellCount)
                wv    == Listed([c \in 1..CellCount |-> RMul(w[c], v[c])], CellCount)
                sumw  == RSum(w)
                out   == y1'.data[r + 1]
            IN  /\ out.src = <<r \div call.shot_num, r % call.shot_num, -1>>
                /\ \A c \in 1..CellCount :
                      y1.data[r * CellCount + c].src = <<out.src[1], out.src[2], c - 1>>
                /\ sumw[1] # 0 =>
                      /\ REq(out.val, RMul(RSum(wv), RRecip(sumw)))
                      /\ (\A c \in 1..CellCount : REq(w[c], w[1])) =>
                            REq(out.val, RMul(RSum(v), <<1, CellCount>>))
                      /\ (\A c \in 1..CellCount : v[c] = v[1]) => REq(out.val, v[1])
      ]_vars

C7_Witness ==
    /\ pc = "kv" /\ call.shot_num = MaxShots /\ call.N = MaxBatch
    /\ draw = <<1, 1, 1>>
    /\ y1.shape = <<MaxBatch * MaxShots, 1>>
    /\ \A i \in DOMAIN y1.data : y1.data[i].val[2] > 0

\* the queries and the cells at which a summary is looked at
ProbeQueries(s) ==
    {q \in {0, 1, CellCount - 1, CellCount, s * CellCount - 1} : q < s * CellCount}

ProbeCells == {0, 1, GridSide - 1, GridSide, CellCount - 1}

\* C8 as stated: every block's summary has shape (batch,
\* shot_num * 64, heads) and the summaries are concatenated along the head
\* dimension.
C8_SummaryPerHead ==
    pc = "gate" =>
        /\ \A i \in DOMAIN attnShapes :
              attnShapes[i] = <<call.N, call.shot_num * CellCount, cfg.decoder_num_heads>>
        /\ StackShape(attnShapes) =
              <<call.N, call.shot_num * CellCount,
                cfg.cross_blocks * cfg.decoder_num_heads>>

\* C8, amended: every block's summary has shape (1, batch, shot_num * 64,
\* heads * 64); its entry (n, q, h * 64 + c) is the mean over the shots m of
\* the scores attn[n, h, q, m * 64 + c] of query q for the key tokens at cell
\* c; the summaries are concatenated along the leading dimension (blocks,
\* batch, shot_num * 64, heads * 64), whose last dimension is the gate's
\* input width heads * 64.
C8_SummaryPerHeadAndCell ==
    pc = "gate" =>
        LET h    == cfg.decoder_num_heads
            s    == call.shot_num
            T    == call.shot_num * CellCount
            attn == AttnShape(y1.shape, y1.shape, cfg.decoder_num_heads)
        IN  /\ attn = <<call.N, h, T, T>>
            /\ Len(attnShapes) = cfg.cross_blocks
            /\ \A i \in DOMAIN attnShapes :
                  attnShapes[i] = <<1, call.N, T, h * CellCount>>
            /\ StackShape(attnShapes) = <<cfg.cross_blocks, call.N, T, h * CellCount>>
            /\ StackShape(attnShapes)[4] = GateWidth(h)
            /\ \A n \in 0..(call.N - 1), hd \in 0..(h - 1) :
                  \A q \in ProbeQueries(s), c \in ProbeCells :
                     SummarySources(attn, locN, s, h, <<n, q, hd * CellCount + c>>)
                        = {<<n, hd, q, m * CellCount + c>> : m \in 0..(s - 1)}
            /\ \A n \in 0..(call.N - 1), m \in 0..(s - 1), c \in 0..(CellCount - 1) :
                  y1.data[n * T + m * CellCount + c + 1].src = <<n, m, c>>

C8_Witness ==
    /\ pc = "gate" /\ call.shot_num = MaxShots /\ call.N = MaxBatch
    /\ cfg.decoder_num_heads = MaxHeads
    /\ attnShapes = <<<<1, MaxBatch, MaxShots * CellCount, MaxHeads * CellCount>>>>

\* C9 as stated: with shot_num > max_shots the call does not
\* return, only the max_shots crops are encoded, and what fails is the
\* reshape of the attention scores; with shot_num < 0 no crop is encoded and
\* the decoder gets the shot token.
C9_ReshapeFails ==
    /\ (InCall /\ call.shot_num > call.max_shots) =>
          /\ pc # "done"
          /\ Len(EncodedShots) <= call.max_shots
          /\ pc = "failed" => err = "reshape of attn"
    /\ (InCall /\ call.shot_num < 0) =>
          /\ Called(CnnStages \cup {"exemplar_blocks"}) = <<>>
          /\ pc # "failed"
          /\ pc \in {"decoder", "head", "done"} =>
                \A n \in 0..(call.N - 1) : KVRow(y, n) = <<FallbackToken>>

\* C9, amended: with shot_num > max_shots the call does not return; the
\* loop encodes the max_shots crops and no other, the tokens are those of
\* max_shots shots, and the call fails at the reshape of the first block's
\* attention scores if max_shots >= 1, at torch.cat of the empty list if
\* max_shots = 0, before any key / value or result is built; with
\* shot_num < 0 no crop is encoded and the decoder gets the shot token.
C9_TooManyShotsFail ==
    /\ (InCall /\ call.shot_num > call.max_shots) =>
          /\ pc \notin {"gate", "pool", "kv", "decoder", "head", "done"}
          /\ Len(EncodedShots) <= call.max_shots
          /\ \A i \in DOMAIN EncodedShots : EncodedShots[i] = i - 1
          /\ pc \in {"cat", "blocks", "failed"} => Len(EncodedShots) = call.max_shots
          /\ pc = "blocks" => y1.shape = <<call.N, call.max_shots * CellCount, 1>> /\ blk = 0
          /\ pc = "failed" =>
                /\ err = IF call.max_shots = 0 THEN "cat of an empty list"
                         ELSE "reshape of attn"
                /\ Len(Called({"exemplar_blocks"})) = IF call.max_shots = 0 THEN 0 ELSE 1
                /\ y = NoTensor /\ pred = NoX
    /\ (InCall /\ call.shot_num < 0) =>
          /\ Called(CnnStages \cup {"exemplar_blocks"}) = <<>>
          /\ pc # "failed"
          /\ pc \in {"decoder", "head", "done"} =>
                /\ y.shape = <<call.N, 1, 1>>
                /\ \A n \in 0..(call.N - 1) : KVRow(y, n) = <<FallbackToken>>

C9_Witness ==
    /\ pc = "failed" /\ err = "reshape of attn"
    /\ call.max_shots = MaxShots /\ call.shot_num = MaxShots + 1
    /\ Len(EncodedShots) = MaxShots

====
